---- MODULE Spec2Model ----
(***************************************************************************)
(* Model of ci test runner src/run_tests.py: one run of run_tests(), i.e.  *)
(* one submission (run_script), the polling loop of                        *)
(* await_script_completion and the final match on the terminal snapshot.   *)
(*                                                                         *)
(* The service's answers (transport failures, state tags, payloads) and    *)
(* the duration of each request are inputs chosen by the environment.      *)
(* Time is counted in whole seconds since `start` (line 47).               *)
(* The command line and the runner script file are taken as given (the     *)
(* SubmissionRequest of the run); the timeout argument of                  *)
(* await_script_completion is a parameter of the run.                      *)
(***************************************************************************)
EXTENDS Integers, Sequences, FiniteSets

\* ---------------------------------------------------------------- bounds
\* largest timeout argument of await_script_completion that is explored
MaxTimeout == 7
\* largest duration (seconds) of one status request
MaxLatency == 1

\* ------------------------------------------------------------- constants
\* Seconds between status polling
POLL_STATUS_INTERVAL == 3

\* ------------------------------------------------------------ input sets
\* state tags the service may report: the three terminal tags, the
\* documented non-terminal ones, a tag outside the enum and the empty tag
TerminalStates == {"COMPLETE", "FAILED", "CANCELLED"}
NonTerminalStates == {"PENDING", "PROCESSING", "PAUSED", ""}
States == TerminalStates \cup NonTerminalStates

OutputTexts == {"ok", "2 failing"}
ErrorMessages == {"boom"}

\* one entry of data["output"]["results"]
Results == [AllPass : BOOLEAN, Output : OutputTexts]

\* data["output"]: absent, present with an empty results list, or present
\* with one result entry
NoOutput == [present |-> FALSE, results |-> << >>]
Outputs == {NoOutput, [present |-> TRUE, results |-> << >>]}
             \cup {[present |-> TRUE, results |-> <<r>>] : r \in Results}

\* data["error"]: absent or a message
NoError == [present |-> FALSE, msg |-> ""]
Errors == {NoError} \cup {[present |-> TRUE, msg |-> m] : m \in ErrorMessages}

\* the decoded body of one status response: a terminal snapshot with any
\* payload, or a running one with no payload or with a full one
Snapshots ==
  [state : TerminalStates, output : Outputs, error : Errors]
    \cup [state : NonTerminalStates, output : {NoOutput}, error : {NoError}]
    \cup [state : NonTerminalStates,
          output : {[present |-> TRUE,
                     results |-> <<[AllPass |-> TRUE, Output |-> "ok"]>>]},
          error : Errors \ {NoError}]

\* data = None (line 50)
None == [state |-> "None", output |-> NoOutput, error |-> NoError]

\* outcome of the POST of run_script
SubmitResults == {"ok", "ConnectionError", "HTTPError"}

\* outcome of the GET of get_script_status
StatusResponses == [kind : {"ok"}, data : Snapshots]
                     \cup [kind : {"ConnectionError", "HTTPError"}, data : {None}]

\* ----------------------------------------------------------------- state
VARIABLES
  pc,          \* position of the run, or the way it ended
  timeout,     \* timeout argument of await_script_completion
  elapsed,     \* time.time() - start
  last_state,  \* last_state of await_script_completion
  data,        \* data of await_script_completion / run_tests
  out,         \* what the run has written, in order
  exit_code,   \* exit status of the process, -1 while it runs
  submits,     \* history: number of submission requests issued
  submit_res,  \* history: outcome of the submission request
  polls,       \* history: number of get_script_status calls
  polled,      \* history: state tags of the polls that returned
  sleeps,      \* history: number of time.sleep calls
  poll_failed, \* history: a status request failed
  fetched      \* history: the snapshot the latest status request returned

vars == <<pc, timeout, elapsed, last_state, data, out, exit_code,
          submits, submit_res, polls, polled, sleeps, poll_failed, fetched>>

ExitPoints == {"exit_timeout", "exit_fail", "exit_failed", "exit_cancelled",
               "end", "raised"}
Done == pc \in ExitPoints

Emit(kind, text) == [kind |-> kind, text |-> text]

\* an uncaught exception: traceback on stderr, exit status 1
Raise(exc) == [pc |-> "raised", emits |-> <<Emit("traceback", exc)>>, exit_code |-> 1]

Init ==
  /\ pc = "run_script"
  /\ timeout \in 0..MaxTimeout
  /\ elapsed = 0
  /\ last_state = ""
  /\ data = None
  /\ out = << >>
  /\ exit_code = -1
  /\ submits = 0
  /\ submit_res = "none"
  /\ polls = 0
  /\ polled = << >>
  /\ sleeps = 0
  /\ poll_failed = FALSE
  /\ fetched = None

\* ---------------------------------------------------------- run_script
\* mutant: res.raise_for_status() left out, a non-success status goes on
AfterSubmitNoRaiseForStatus(res) ==
  IF res = "ConnectionError" THEN "raised" ELSE "poll"

\* mutant: a failed submission is tried again
AfterSubmitRetry(res) ==
  IF res = "ok" THEN "poll" ELSE "run_script"

\* mutant: the loop sleeps before its first status request
AfterSubmitSleepFirst(res) ==
  IF res = "ok" THEN "sleep" ELSE "raised"

\* where run_tests continues after requests.post / raise_for_status
AfterSubmit(res) ==
  IF res = "ok" THEN "poll" ELSE "raised"

RunScript ==
  /\ pc = "run_script"
  /\ \E res \in SubmitResults :
       LET next == AfterSubmit(res)
       IN /\ submits' = submits + 1
          /\ submit_res' = res
          /\ pc' = next
          /\ out' = IF next = "raised" THEN out \o Raise(res).emits ELSE out
          /\ exit_code' = IF next = "raised" THEN Raise(res).exit_code ELSE exit_code
  /\ UNCHANGED <<timeout, elapsed, last_state, data, polls, polled, sleeps,
                 poll_failed, fetched>>

\* ------------------------------------------- await_script_completion
\* mutant: CANCELLED forgotten in the terminal test
IsTerminalNoCancelled(state) ==
  state = "COMPLETE" \/ state = "FAILED"

\* mutant: every tag that is not a known running state counts as terminal
IsTerminalUnknownTags(state) ==
  state # "PENDING" /\ state # "PROCESSING"

IsTerminal(state) ==
  state = "COMPLETE" \/ state = "FAILED" \/ state = "CANCELLED"

\* mutant: the deadline is compared one poll interval too late
TimedOutLate(t, limit) ==
  t - POLL_STATUS_INTERVAL > limit

\* mutant: the deadline test is not strict
TimedOutInclusive(t, limit) ==
  t >= limit

TimedOut(t, limit) ==
  t > limit

StateChanged(state, last) ==
  state # last

\* mutant: res.raise_for_status() left out of get_script_status
AfterStatusNoRaiseForStatus(kind) ==
  IF kind = "ConnectionError" THEN "raised" ELSE "ok"

\* requests.get / raise_for_status of get_script_status: the call returns
\* the decoded body or raises
AfterStatus(kind) ==
  IF kind = "ok" THEN "ok" ELSE "raised"

\* mutant: the deadline is tested before the terminal states
NextStepDeadlineFirst(state, t, limit) ==
  IF TimedOut(t, limit) THEN "exit_timeout"
  ELSE IF IsTerminal(state) THEN "finalize"
  ELSE "sleep"

\* mutant: the loop goes round without sleeping
NextStepNoSleep(state, t, limit) ==
  IF IsTerminal(state) THEN "finalize"
  ELSE IF TimedOut(t, limit) THEN "exit_timeout"
  ELSE "poll"

\* mutant: instead of sleeping once, the loop waits for the state to change
\* without asking the service again, and so never leaves the wait
NextStepWaitsForChange(state, t, limit) ==
  IF IsTerminal(state) THEN "finalize"
  ELSE IF TimedOut(t, limit) THEN "exit_timeout"
  ELSE "wait"

\* where the iteration goes after the snapshot: break, exit(1) or sleep
NextStep(state, t, limit) ==
  IF IsTerminal(state) THEN "finalize"
  ELSE IF TimedOut(t, limit) THEN "exit_timeout"
  ELSE "sleep"

\* one iteration of the loop, from the status request to the sleep
Poll ==
  /\ pc = "poll"
  /\ \E resp \in StatusResponses, lat \in 0..MaxLatency :
       LET now == elapsed + lat
           state == resp.data.state
           changed == StateChanged(state, last_state)
           out1 == IF changed THEN Append(out, Emit("state", state)) ELSE out
           step == NextStep(state, now, timeout)
       IN /\ polls' = polls + 1
          /\ elapsed' = now
          /\ poll_failed' = (poll_failed \/ resp.kind # "ok")
          /\ IF AfterStatus(resp.kind) = "raised"
               THEN /\ pc' = "raised"
                    /\ out' = out \o Raise(resp.kind).emits
                    /\ exit_code' = Raise(resp.kind).exit_code
                    /\ UNCHANGED <<data, last_state, polled, fetched>>
               ELSE /\ data' = resp.data
                    /\ fetched' = resp.data
                    /\ polled' = Append(polled, state)
                    /\ last_state' = IF changed THEN state ELSE last_state
                    /\ pc' = step
                    /\ out' = IF step = "exit_timeout"
                                THEN Append(out1, Emit("timeout", "timeout"))
                                ELSE out1
                    /\ exit_code' = IF step = "exit_timeout" THEN 1 ELSE exit_code
  /\ UNCHANGED <<timeout, submits, submit_res, sleeps>>

Sleep ==
  /\ pc = "sleep"
  /\ elapsed' = elapsed + POLL_STATUS_INTERVAL
  /\ sleeps' = sleeps + 1
  /\ pc' = "poll"
  /\ UNCHANGED <<timeout, last_state, data, out, exit_code,
                 submits, submit_res, polls, polled, poll_failed, fetched>>

\* ------------------------------------------------------------ run_tests
\* a case of the match that ends without exit(): control goes on to line 102
FallThrough(emits) == [pc |-> "after_match", emits |-> emits, exit_code |-> -1]

\* exit(1) after the given emissions
Exit1(at, emits) == [pc |-> at, emits |-> emits, exit_code |-> 1]

\* mutant: the pass test is inverted (if all_pass: exit(1))
CaseCompleteInverted(d) ==
  IF ~d.output.present THEN Raise("KeyError")
  ELSE IF Len(d.output.results) = 0 THEN Raise("IndexError")
  ELSE LET result == d.output.results[1]
           all_pass == result.AllPass
       IN IF all_pass
            THEN Exit1("exit_fail", <<Emit("output", result.Output)>>)
            ELSE FallThrough(<<Emit("output", result.Output)>>)

\* mutant: the Output text is printed only after the pass test
CaseCompletePrintAfterCheck(d) ==
  IF ~d.output.present THEN Raise("KeyError")
  ELSE IF Len(d.output.results) = 0 THEN Raise("IndexError")
  ELSE LET result == d.output.results[1]
           all_pass == result.AllPass
       IN IF ~all_pass
            THEN Exit1("exit_fail", << >>)
            ELSE FallThrough(<<Emit("output", result.Output)>>)

\* mutant: exit(1) is missing after a failing result
CaseCompleteNoExit(d) ==
  IF ~d.output.present THEN Raise("KeyError")
  ELSE IF Len(d.output.results) = 0 THEN Raise("IndexError")
  ELSE LET result == d.output.results[1]
       IN FallThrough(<<Emit("output", result.Output)>>)

\* mutant: a missing result is read with a default and taken as a pass
CaseCompleteDefaultPass(d) ==
  IF ~d.output.present \/ Len(d.output.results) = 0 THEN FallThrough(<< >>)
  ELSE LET result == d.output.results[1]
           all_pass == result.AllPass
       IN IF ~all_pass
            THEN Exit1("exit_fail", <<Emit("output", result.Output)>>)
            ELSE FallThrough(<<Emit("output", result.Output)>>)

\* case "COMPLETE"
CaseComplete(d) ==
  IF ~d.output.present THEN Raise("KeyError")
  ELSE IF Len(d.output.results) = 0 THEN Raise("IndexError")
  ELSE LET result == d.output.results[1]
           all_pass == result.AllPass
       IN IF ~all_pass
            THEN Exit1("exit_fail", <<Emit("output", result.Output)>>)
            ELSE FallThrough(<<Emit("output", result.Output)>>)

\* mutant: exit(1) is missing after the error message
CaseFailedNoExit(d) ==
  IF ~d.error.present THEN Raise("KeyError")
  ELSE FallThrough(<<Emit("error", d.error.msg)>>)

\* case "FAILED"
CaseFailed(d) ==
  IF ~d.error.present THEN Raise("KeyError")
  ELSE Exit1("exit_failed", <<Emit("error", d.error.msg)>>)

\* mutant: the cancelled case prints data["error"] like the failed case
CaseCancelledReadsError(d) ==
  IF ~d.error.present THEN Raise("KeyError")
  ELSE Exit1("exit_cancelled", <<Emit("error", d.error.msg)>>)

\* mutant: the cancelled case exits without writing anything
CaseCancelledSilent(d) ==
  Exit1("exit_cancelled", << >>)

\* case "CANCELLED"
CaseCancelled(d) ==
  Exit1("exit_cancelled", <<Emit("cancelled", "Cancelled")>>)

\* mutant: the match has no case for CANCELLED
MatchStateNoCancelledCase(d) ==
  CASE d.state = "COMPLETE" -> CaseComplete(d)
    [] d.state = "FAILED" -> CaseFailed(d)
    [] OTHER -> FallThrough(<< >>)

\* match data["state"]
MatchState(d) ==
  CASE d.state = "COMPLETE" -> CaseComplete(d)
    [] d.state = "FAILED" -> CaseFailed(d)
    [] d.state = "CANCELLED" -> CaseCancelled(d)
    [] OTHER -> FallThrough(<< >>)

\* the match of run_tests and the final print
Finalize ==
  /\ pc = "finalize"
  /\ LET r == MatchState(data)
     IN IF r.pc = "after_match"
          THEN /\ pc' = "end"
               /\ out' = Append(out \o r.emits, Emit("pass", "All tests passed"))
               /\ exit_code' = 0
          ELSE /\ pc' = r.pc
               /\ out' = out \o r.emits
               /\ exit_code' = r.exit_code
  /\ UNCHANGED <<timeout, elapsed, last_state, data,
                 submits, submit_res, polls, polled, sleeps, poll_failed, fetched>>

Next == RunScript \/ Poll \/ Sleep \/ Finalize

Spec == Init /\ [][Next]_vars

\* the run is one thread that keeps going: every request returns or raises,
\* every sleep ends
FairSpec == Spec /\ WF_vars(Next)

\* ----------------------------------------------------------- type check
TypeOK ==
  /\ pc \in {"run_script", "poll", "sleep", "finalize"} \cup ExitPoints
  /\ timeout \in 0..MaxTimeout
  /\ elapsed \in Nat
  /\ last_state \in States
  /\ data \in Snapshots \cup {None}
  /\ exit_code \in {-1, 0, 1}
  /\ submits \in Nat /\ polls \in Nat /\ sleeps \in Nat
  /\ submit_res \in SubmitResults \cup {"none"}
  /\ polled \in Seq(States)
  /\ poll_failed \in BOOLEAN
  /\ fetched \in Snapshots \cup {None}

\* ------------------------------------------------- vocabulary of the claims
LastPolled == polled[Len(polled)]

\* every status request of the run returned a snapshot
AllReturned == polls = Len(polled)

\* no request took any time: the clock advanced by the sleeps only
Instant == elapsed = sleeps * POLL_STATUS_INTERVAL

\* the snapshot in data carries a first result entry
HasResult == data.output.present /\ Len(data.output.results) > 0
FirstResult == data.output.results[1]

Ceil(a, b) == (a + b - 1) \div b

PassEmission == Emit("pass", "All tests passed")
Emitted(e) == \E i \in DOMAIN out : out[i] = e

\* number of state-transition notifications written so far
Notifications == Cardinality({i \in DOMAIN out : out[i].kind = "state"})

\* number of maximal runs of equal consecutive tags in s
Runs(s) == Cardinality({i \in DOMAIN s : i = 1 \/ s[i] # s[i - 1]})

\* ------------------------------------------------------------------ C1
\* C1: once a poll has returned a terminal state, no step of the run issues
\* another get_script_status call: the first terminal observation is the
\* last poll.
C1_NoPollAfterTerminal ==
  [][(polled # << >> /\ LastPolled \in TerminalStates) => polls' = polls]_vars

\* a run that polled a terminal state after non-terminal ones and ended
C1_Witness ==
  /\ Done
  /\ Len(polled) >= 3
  /\ LastPolled \in TerminalStates
  /\ polls = Len(polled)

\* ------------------------------------------------------------------ C2
\* C2: if the submission request fails in transport or returns a
\* non-success status, the run has ended with a non-zero exit status
\* (uncaught exception) and get_script_status was never invoked.
C2_SubmitFailureIsError ==
  submit_res \in {"ConnectionError", "HTTPError"}
    => /\ pc = "raised"
       /\ exit_code # 0 /\ exit_code # -1
       /\ polls = 0
       /\ ~Emitted(PassEmission)

C2_Witness ==
  /\ submit_res = "HTTPError"
  /\ pc = "raised"
  /\ polls = 0

\* ------------------------------------------------------------------ C3
\* C3 as stated: a run in which every poll returned a non-terminal state
\* ends in the timeout exit with a non-zero status after at most
\* ceil(timeout / POLL_STATUS_INTERVAL) polls (stated for runs whose clock
\* is advanced by the sleeps only, the reading most favourable to the bound).
C3_Original ==
  (Done /\ polls > 0 /\ AllReturned /\ Instant
        /\ \A i \in DOMAIN polled : polled[i] \notin TerminalStates)
    => /\ pc = "exit_timeout"
       /\ exit_code # 0
       /\ polls <= Ceil(timeout, POLL_STATUS_INTERVAL)

\* C3 amended: a run in which every poll returned a non-terminal state ends
\* in the timeout exit ("timeout" written last, exit status non-zero) after
\* at most floor(timeout / POLL_STATUS_INTERVAL) + 2 polls.
C3_TimeoutBound ==
  (Done /\ polls > 0 /\ AllReturned
        /\ \A i \in DOMAIN polled : polled[i] \notin TerminalStates)
    => /\ pc = "exit_timeout"
       /\ exit_code # 0 /\ exit_code # -1
       /\ out[Len(out)] = Emit("timeout", "timeout")
       /\ polls <= (timeout \div POLL_STATUS_INTERVAL) + 2

\* a timeout after the largest number of polls the deadline allows
C3_Witness ==
  /\ pc = "exit_timeout"
  /\ polls = (timeout \div POLL_STATUS_INTERVAL) + 2
  /\ polls >= 3

\* ------------------------------------------------------------------ C4
\* C4: when the last poll returned COMPLETE (after any number of
\* non-terminal polls) and the first result entry has AllPass = true, the
\* finished run has written "All tests passed" last and exits with 0.
C4_CompletePass ==
  (pc # "finalize" /\ polled # << >> /\ LastPolled = "COMPLETE"
        /\ HasResult /\ FirstResult.AllPass)
    => /\ pc = "end"
       /\ exit_code = 0
       /\ out[Len(out)] = PassEmission

\* the run [PENDING, PENDING, PROCESSING, COMPLETE] with {AllPass: true, Output: "ok"}
C4_Witness ==
  /\ pc = "end"
  /\ polled = <<"PENDING", "PENDING", "PROCESSING", "COMPLETE">>
  /\ HasResult /\ FirstResult = [AllPass |-> TRUE, Output |-> "ok"]

\* ------------------------------------------------------------------ C5
\* C5: when the last poll returned COMPLETE and the first result entry has
\* AllPass = false, the run ends at the Fail exit (not by an exception, not
\* at an Error exit) with a non-zero status and the Output text is the last
\* thing written; with AllPass = true the same Output emission precedes the
\* pass emission.
C5_CompleteFail ==
  (pc # "finalize" /\ polled # << >> /\ LastPolled = "COMPLETE" /\ HasResult)
    => IF ~FirstResult.AllPass
         THEN /\ pc = "exit_fail"
              /\ exit_code # 0 /\ exit_code # -1
              /\ out[Len(out)] = Emit("output", FirstResult.Output)
              /\ ~Emitted(PassEmission)
         ELSE /\ Len(out) >= 2
              /\ out[Len(out) - 1] = Emit("output", FirstResult.Output)

C5_Witness ==
  /\ pc = "exit_fail"
  /\ LastPolled = "COMPLETE"
  /\ FirstResult = [AllPass |-> FALSE, Output |-> "2 failing"]
  /\ out[Len(out)] = Emit("output", "2 failing")

\* ------------------------------------------------------------------ C6
\* C6: when the last poll returned FAILED with error payload m, the run ends
\* at the Error exit with a non-zero status, m is the last thing written and
\* "All tests passed" is never written.
C6_FailedIsError ==
  (pc # "finalize" /\ polled # << >> /\ LastPolled = "FAILED" /\ data.error.present)
    => /\ pc = "exit_failed"
       /\ exit_code # 0 /\ exit_code # -1
       /\ out[Len(out)] = Emit("error", data.error.msg)
       /\ ~Emitted(PassEmission)

C6_Witness ==
  /\ pc = "exit_failed"
  /\ LastPolled = "FAILED"
  /\ data.error.msg = "boom"
  /\ out[Len(out)] = Emit("error", "boom")

\* ------------------------------------------------------------------ C7
\* C7: when the last poll returned CANCELLED, the run ends at the cancelled
\* exit with a non-zero status whatever output or error payload the snapshot
\* carries or lacks: no missing field raises, and what is written is the
\* fixed text, not a payload.
C7_CancelledIsError ==
  (pc # "finalize" /\ polled # << >> /\ LastPolled = "CANCELLED")
    => /\ pc = "exit_cancelled"
       /\ exit_code # 0 /\ exit_code # -1
       /\ out[Len(out)] = Emit("cancelled", "Cancelled")
       /\ ~Emitted(PassEmission)

\* a cancelled snapshot without any payload
C7_Witness ==
  /\ pc = "exit_cancelled"
  /\ LastPolled = "CANCELLED"
  /\ ~data.error.present /\ ~data.output.present

\* ------------------------------------------------------------------ C8
\* C8 as stated: the number of state-transition notifications written equals
\* the number of maximal runs of equal consecutive tags among the polled
\* states (the first poll always counting as a change).
C8_Original ==
  Notifications = Runs(polled)

\* what the code does: the tag before the first poll is the empty string, so
\* a first poll with an empty tag is not notified
C8_SentinelRuns ==
  Notifications = Runs(<<"">> \o polled) - 1

\* ------------------------------------------------------------------ C9
\* C9: a finished run has exit status 0 if and only if its last poll
\* returned COMPLETE with a first result entry whose AllPass is true; every
\* other ending (Fail, FAILED, CANCELLED, transport failure, timeout) has a
\* non-zero status.
C9_ExitCode ==
  Done => /\ exit_code \in {0, 1}
          /\ (exit_code = 0) <=>
               (polled # << >> /\ LastPolled = "COMPLETE"
                  /\ HasResult /\ FirstResult.AllPass)
          /\ (exit_code = 0) <=> (pc = "end")

C9_Witness ==
  /\ pc = "end"
  /\ exit_code = 0
  /\ Len(polled) = 1

\* ----------------------------------------------------------------- C10
\* C10: the submission request is issued at most once in any run, exactly
\* once in any run that has left run_script, polled or ended, and so before
\* every status request and never again after a failure.
C10_SubmitOnce ==
  /\ submits <= 1
  /\ (pc # "run_script" \/ polls > 0 \/ Done) => submits = 1

C10_Witness ==
  /\ pc = "exit_timeout"
  /\ submits = 1
  /\ polls >= 2

\* ----------------------------------------------------------------- C11
\* C11: once a status request has failed (transport failure or non-success
\* status) the run has ended by the uncaught exception with a non-zero
\* status: the failed request is the last one, no sleep follows it (one sleep
\* between polls, none after the last) and "All tests passed" is not written.
C11_StatusFailureIsFatal ==
  /\ [](poll_failed
          => /\ pc = "raised"
             /\ exit_code # 0 /\ exit_code # -1
             /\ polls = Len(polled) + 1
             /\ sleeps = polls - 1
             /\ out[Len(out)].kind = "traceback"
             /\ ~Emitted(PassEmission))
  /\ [][poll_failed => (polls' = polls /\ sleeps' = sleeps)]_vars

\* a status request that failed after an earlier one had returned
C11_Witness ==
  /\ poll_failed
  /\ pc = "raised"
  /\ polls >= 2

\* ----------------------------------------------------------------- C12
\* the emission that explains a non-zero ending, from what the service sent
Diagnostic ==
  IF submit_res # "ok" THEN {Emit("traceback", submit_res)}
  ELSE IF poll_failed
         THEN {Emit("traceback", "ConnectionError"), Emit("traceback", "HTTPError")}
  ELSE IF fetched.state \notin TerminalStates THEN {Emit("timeout", "timeout")}
  ELSE IF fetched.state = "CANCELLED" THEN {Emit("cancelled", "Cancelled")}
  ELSE IF fetched.state = "FAILED"
         THEN IF fetched.error.present
                THEN {Emit("error", fetched.error.msg)}
                ELSE {Emit("traceback", "KeyError")}
  ELSE IF ~fetched.output.present THEN {Emit("traceback", "KeyError")}
  ELSE IF Len(fetched.output.results) = 0 THEN {Emit("traceback", "IndexError")}
  ELSE {Emit("output", fetched.output.results[1].Output)}

\* C12: a finished run either wrote "All tests passed" last and exits with 0
\* (and then the last snapshot is COMPLETE with AllPass true), or exits
\* non-zero and the last thing written names the cause: the Output text, the
\* service's error message, "Cancelled", "timeout", or the traceback of the
\* uncaught exception (the exception's own error message).
C12_ExplainedExit ==
  Done =>
    /\ exit_code \in {0, 1}
    /\ out # << >>
    /\ IF exit_code = 0
         THEN /\ out[Len(out)] = PassEmission
              /\ fetched.state = "COMPLETE"
              /\ fetched.output.present /\ Len(fetched.output.results) > 0
              /\ fetched.output.results[1].AllPass
              /\ submit_res = "ok" /\ ~poll_failed
         ELSE /\ out[Len(out)] \in Diagnostic
              /\ ~Emitted(PassEmission)

\* a cancelled run, whose only diagnostic is the fixed text
C12_Witness ==
  /\ pc = "exit_cancelled"
  /\ exit_code = 1
  /\ out[Len(out)] = Emit("cancelled", "Cancelled")
  /\ Len(polled) >= 2

\* ----------------------------------------------------------------- C13
\* C13: the timeout exit is taken only after a poll that returned a
\* non-terminal state (and with the deadline exceeded); a poll that returned
\* a terminal state leads to the finalization, never to the timeout exit,
\* also when the elapsed time already exceeds the deadline.
C13_TerminalBeforeDeadline ==
  /\ pc = "exit_timeout"
       => /\ polled # << >>
          /\ LastPolled \notin TerminalStates
          /\ elapsed > timeout
  /\ (polled # << >> /\ LastPolled \in TerminalStates)
       => /\ pc \in {"finalize", "end", "exit_fail", "exit_failed",
                     "exit_cancelled", "raised"}
          /\ ~Emitted(Emit("timeout", "timeout"))
          /\ ~poll_failed

\* a terminal state polled after the deadline and finalized
C13_Witness ==
  /\ polled # << >>
  /\ LastPolled = "COMPLETE"
  /\ elapsed > timeout
  /\ pc = "end"

\* ----------------------------------------------------------------- C14
\* C14: a COMPLETE snapshot without output payload or without a first result
\* entry ends the run by an uncaught KeyError or IndexError: non-zero status,
\* a traceback that is none of the transport failures, and neither the pass
\* emission nor an Output emission (no Pass or Fail from a default).
C14_MalformedComplete ==
  (pc # "finalize" /\ fetched.state = "COMPLETE"
        /\ (~fetched.output.present \/ Len(fetched.output.results) = 0))
    => /\ pc = "raised"
       /\ exit_code # 0 /\ exit_code # -1
       /\ out[Len(out)] = Emit("traceback",
                               IF fetched.output.present THEN "IndexError" ELSE "KeyError")
       /\ ~Emitted(PassEmission)
       /\ \A i \in DOMAIN out : out[i].kind \notin {"output", "error", "cancelled", "timeout"}

\* COMPLETE with an empty results list
C14_Witness ==
  /\ pc = "raised"
  /\ fetched.state = "COMPLETE"
  /\ fetched.output.present
  /\ Len(fetched.output.results) = 0

\* ----------------------------------------------------------------- C15
\* C15: every run eventually ends (under FairSpec: each request returns
\* or raises and each sleep ends, advancing the clock by the poll interval).
C15_Terminates ==
  <>Done

\* a run that ended after going round the loop as often as the deadline lets it
C15_Witness ==
  /\ Done
  /\ sleeps = (timeout \div POLL_STATUS_INTERVAL) + 1
  /\ sleeps >= 3

\* ----------------------------------------------------------------- C16
\* C16: one sleep separates consecutive status requests: before a request as
\* many sleeps as requests have been made, after it one less (so none after
\* the final poll); the loop is about to sleep only after a poll that
\* returned a non-terminal state within the deadline; each sleep lasts
\* POLL_STATUS_INTERVAL.
C16_OneSleepBetweenPolls ==
  /\ [](/\ pc \in {"run_script", "poll"} => sleeps = polls
        /\ (pc \notin {"run_script", "poll"} /\ polls > 0) => sleeps = polls - 1
        /\ polls = 0 => sleeps = 0
        /\ pc = "sleep" => /\ AllReturned
                           /\ LastPolled \notin TerminalStates
                           /\ ~(elapsed > timeout))
  /\ [][sleeps' # sleeps
          => /\ sleeps' = sleeps + 1
             /\ elapsed' = elapsed + POLL_STATUS_INTERVAL
             /\ polls' = polls]_vars
  /\ [][polls' # polls => (polls' = polls + 1 /\ sleeps' = sleeps)]_vars

\* a run of four polls and three sleeps that ended in the loop
C16_Witness ==
  /\ pc = "exit_timeout"
  /\ polls = 4
  /\ sleeps = 3

\* ----------------------------------------------------------------- C17
\* C17: after a successful submission the first status request is made
\* without any sleep and before any deadline test: no run ends or times out
\* with zero polls after a successful submit, and a first poll that returns
\* a terminal state is the only poll and is finalized, never timed out,
\* whatever the deadline.
C17_FirstPollUnconditional ==
  /\ polls = 0 => (sleeps = 0 /\ elapsed = 0 /\ pc \in {"run_script", "poll", "raised"})
  /\ (submit_res = "ok" /\ pc # "poll") => polls >= 1
  /\ (polled # << >> /\ polled[1] \in TerminalStates)
       => /\ Len(polled) = 1 /\ polls = 1 /\ sleeps = 0
          /\ pc \in {"finalize", "end", "exit_fail", "exit_failed",
                     "exit_cancelled", "raised"}
          /\ ~Emitted(Emit("timeout", "timeout"))

\* deadline 0, first poll terminal and late: finalized
C17_Witness ==
  /\ timeout = 0
  /\ polled = <<"FAILED">>
  /\ elapsed > 0
  /\ pc = "exit_failed"

\* ----------------------------------------------------------------- C18
\* C18: a run that only polls non-terminal states, with requests that take no
\* time, times out at its (floor(timeout / POLL_STATUS_INTERVAL) + 2)-th
\* poll, at elapsed time (floor(timeout / POLL_STATUS_INTERVAL) + 1) *
\* POLL_STATUS_INTERVAL; a poll at elapsed time equal to the deadline does
\* not time out.
C18_ExactPollCount ==
  /\ (pc = "exit_timeout" /\ Instant)
       => /\ polls = (timeout \div POLL_STATUS_INTERVAL) + 2
          /\ elapsed = ((timeout \div POLL_STATUS_INTERVAL) + 1) * POLL_STATUS_INTERVAL
  /\ (pc \in {"sleep", "exit_timeout"} /\ elapsed = timeout) => pc = "sleep"

\* a poll exactly at the deadline, after which the loop sleeps
C18_Witness ==
  /\ pc = "sleep"
  /\ elapsed = timeout
  /\ timeout = 2 * POLL_STATUS_INTERVAL
  /\ Instant

\* ----------------------------------------------------------------- C19
\* C19: while the last polled tag is none of COMPLETE, FAILED, CANCELLED
\* (documented or not, with or without payload) the run is in the loop or
\* ended by timeout or by a failed request: it never reaches the
\* finalization, never writes a pass, Output, error or cancelled emission,
\* never exits with 0; if all requests returned it ends by timeout only.
C19_OtherTagsNonTerminal ==
  (polled # << >> /\ LastPolled \notin TerminalStates)
    => /\ pc \in {"poll", "sleep", "exit_timeout", "raised"}
       /\ pc = "raised" => poll_failed
       /\ exit_code # 0
       /\ \A i \in DOMAIN out : out[i].kind \in {"state", "timeout", "traceback"}
       /\ (Done /\ ~poll_failed) => (pc = "exit_timeout" /\ exit_code = 1)

\* a run that saw only an undocumented tag, carrying a passing result
C19_Witness ==
  /\ pc = "exit_timeout"
  /\ \A i \in DOMAIN polled : polled[i] = "PAUSED"
  /\ Len(polled) >= 2
  /\ fetched.output.present /\ Len(fetched.output.results) > 0
  /\ fetched.output.results[1].AllPass

\* ----------------------------------------------------------------- C20
\* C20: what await_script_completion returns to run_tests is the snapshot of
\* the latest status request and its state is terminal, so a run that got
\* through the match ended in one of its three cases; "All tests passed" is
\* written only when that snapshot is COMPLETE with AllPass true.
C20_ReturnsFinalTerminalSnapshot ==
  /\ polled # << >> => (data = fetched /\ data.state = LastPolled)
  /\ pc = "finalize" => data.state \in TerminalStates
  /\ pc \in {"end", "exit_fail", "exit_failed", "exit_cancelled"}
       => /\ data.state \in TerminalStates
          /\ pc = "exit_failed" <=> data.state = "FAILED"
          /\ pc = "exit_cancelled" <=> data.state = "CANCELLED"
          /\ pc \in {"end", "exit_fail"} <=> data.state = "COMPLETE"
  /\ Emitted(PassEmission)
       => /\ fetched.state = "COMPLETE"
          /\ fetched.output.present /\ Len(fetched.output.results) > 0
          /\ fetched.output.results[1].AllPass

\* a pass on a snapshot that differs from the one polled before it
C20_Witness ==
  /\ pc = "end"
  /\ polled = <<"PROCESSING", "COMPLETE">>
  /\ data = fetched
  /\ data.output.results[1] = [AllPass |-> TRUE, Output |-> "ok"]

====
